---- MODULE Spec2Model ----
(***************************************************************************)
(* Model of the cow-breed recognition application:                         *)
(*   - services/geminiService.ts : module initialisation (API_KEY check)   *)
(*     and recognizeCowBreed, the adapter around ai.models.generateContent *)
(*   - App.tsx : the React shell (state hooks, handleImageChange,          *)
(*     handleRecognize with its FileReader callbacks, handleReset).        *)
(*                                                                         *)
(* JavaScript values are represented as follows.                           *)
(*   null / undefined      Null  (the empty sequence)                      *)
(*   a present value v     Some(v)  (a one-element sequence)               *)
(*   a decoded JSON object a record whose DOMAIN is the set of fields the  *)
(*                         object carries (an absent field is not in the   *)
(*                         DOMAIN)                                         *)
(*   confidence            an integer number of hundredths (92 is 0.92)    *)
(***************************************************************************)
EXTENDS Integers, Sequences, FiniteSets, TLC

VARIABLES
    API_KEY,        \* process.env.API_KEY as read at module load
    moduleState,    \* "unloaded" | "ready" | "failed" : geminiService module
    startupFault,   \* the Error thrown while loading the module, or Null
    apiCalls,       \* number of ai.models.generateContent calls issued
    adapterPc,      \* position of a direct caller: "idle" | "awaiting" | "settled"
    extOutcome,     \* how the awaited generateContent call settled, or Null
    promise,        \* the promise returned by recognizeCowBreed
    imageFile,      \* App state: selected File (its identity), or Null
    imageUrl,       \* App state: object URL of the selected File, or Null
    breedInfo,      \* App state: last BreedInfo, or Null
    isLoading,      \* App state: busy flag
    error,          \* App state: last error text, or Null
    jobs,           \* outstanding handleRecognize continuations
    nextFile,       \* identity of the next File object the user picks
    breedInfoOf,    \* history: File whose recognition wrote breedInfo, or Null
    errorOf         \* history: File whose recognition wrote error, or Null

adapterVars == <<adapterPc, extOutcome, promise>>
moduleVars  == <<API_KEY, moduleState, startupFault>>
shellVars   == <<imageFile, imageUrl, breedInfo, isLoading, error, jobs,
                 nextFile, breedInfoOf, errorOf>>
vars == <<API_KEY, moduleState, startupFault, apiCalls, adapterPc, extOutcome,
          promise, imageFile, imageUrl, breedInfo, isLoading, error, jobs,
          nextFile, breedInfoOf, errorOf>>

(***************************************************************************)
(* Bounds                                                                  *)
(***************************************************************************)
MaxCalls == 2      \* generateContent calls issued in one behaviour
MaxPad   == 1      \* whitespace characters around the response body
MaxFiles == 3      \* File objects the user picks in one behaviour

Null    == <<>>
Some(v) == <<v>>

\* The property r[f] of an object r is a non-empty string.
NonEmpty(r, f) == f \in DOMAIN r /\ r[f] # ""

(***************************************************************************)
(* Input domains                                                           *)
(***************************************************************************)
BreedTexts       == {"", "Holstein Friesian"}
DescriptionTexts == {"", "A dairy breed."}
ConfidenceValues == {-50, 0, 92, 150}
ErrorTexts       == {"", "No cow was detected in the provided image."}

Opt(S) == {{}} \cup {{v} : v \in S}

Field(name, opt) == IF opt = {} THEN <<>> ELSE (name :> (CHOOSE v \in opt : TRUE))

\* Every object the four-optional-field schema admits.
DecodedObjects ==
    { Field("breed", b) @@ Field("description", d)
        @@ Field("confidence", c) @@ Field("error", e) :
        b \in Opt(BreedTexts), d \in Opt(DescriptionTexts),
        c \in Opt(ConfidenceValues), e \in Opt(ErrorTexts) }

\* JSON documents: the values JSON.parse can produce.
JsonValues ==
    { [type |-> t, fields |-> <<>>] :
        t \in {"null", "number", "string", "boolean", "array"} }
    \cup { [type |-> "object", fields |-> o] : o \in DecodedObjects }

\* Body of the response text: empty, not JSON, or the text of a document.
Bodies ==
    { [syntax |-> s, value |-> [type |-> "null", fields |-> <<>>]] :
        s \in {"empty", "junk"} }
    \cup { [syntax |-> "json", value |-> v] : v \in JsonValues }

\* response.text when it is a string: whitespace, body, whitespace.
Texts == [lead : 0..MaxPad, body : Bodies, trail : 0..MaxPad]

\* Values a rejected generateContent call can throw: Error instances and
\* other values, each with or without a descriptive message.
ThrownValues ==
    [isError : BOOLEAN, message : {"", "fetch failed"}]

ExternalOutcomes ==
    { [kind |-> "rejected", thrown |-> t] : t \in ThrownValues }
    \cup { [kind |-> "fulfilled", text |-> Null] }
    \cup { [kind |-> "fulfilled", text |-> Some(t)] : t \in Texts }

(***************************************************************************)
(* services/geminiService.ts                                               *)
(***************************************************************************)
FallbackMessage == "Could not determine the breed. The image may not contain a cow."
GenericMessage  == "An unexpected error occurred during breed recognition."
ApiErrorPrefix  == "API Error: "
StartupMessage  == "API_KEY environment variable is not set."

Return(v) == [kind |-> "return", value |-> v]
Throw(v)  == [kind |-> "throw", value |-> v]

NewError(msg) == [isError |-> TRUE, message |-> msg]

\* String.prototype.trim
trim(text) == [text EXCEPT !.lead = 0, !.trail = 0]

\* JSON.parse: completes with the document or throws a SyntaxError.
\* Whitespace around the document is insignificant.
JSONparse(text) ==
    CASE text.body.syntax = "json"  -> Return(text.body.value)
      [] text.body.syntax = "empty" -> Throw(NewError("Unexpected end of JSON input"))
      [] OTHER                      -> Throw(NewError("Unexpected token in JSON"))

\* Property read result[f] on a decoded value that is not null.
HasField(result, f) == result.type = "object" /\ f \in DOMAIN result.fields

\* Variant: tests for presence (!== undefined) instead of truthiness.
Truthy_defined(result, f) == HasField(result, f)

\* JavaScript truthiness of the string property result[f].
Truthy(result, f) == HasField(result, f) /\ result.fields[f] # ""

\* Variant: returns the decoded object instead of a fresh { error }.
errorArm_whole(result) == result.fields

\* { error: result.error }
errorArm(result) == [error |-> result.fields["error"]]

\* Variant: clamps confidence into [0, 1].
successArm_clamped(result) ==
    IF "confidence" \in DOMAIN result.fields
    THEN [result.fields EXCEPT !["confidence"] =
              IF @ < 0 THEN 0 ELSE IF @ > 100 THEN 100 ELSE @]
    ELSE result.fields

\* return result
successArm(result) == result.fields

\* Variant: omits the `!result.breed` test.
validate_noBreedCheck(result) ==
    IF result.type = "null"
    THEN Throw(NewError("Cannot read properties of null (reading 'error')"))
    ELSE IF Truthy(result, "error") THEN Return(errorArm(result))
    ELSE IF result.type = "object" THEN Return(successArm(result))
    ELSE Return([error |-> FallbackMessage])

\* Post-parse validation, in source order.
validate(result) ==
    IF result.type = "null"
    THEN Throw(NewError("Cannot read properties of null (reading 'error')"))
    ELSE IF Truthy(result, "error") THEN Return(errorArm(result))
    ELSE IF ~Truthy(result, "breed") THEN Return([error |-> FallbackMessage])
    ELSE Return(successArm(result))

\* The try block, from the point the awaited call settles as outcome o.
tryBlock(o) ==
    IF o.kind = "rejected" THEN Throw(o.thrown)
    ELSE IF o.text = Null
    THEN Throw(NewError("Cannot read properties of undefined (reading 'trim')"))
    ELSE LET parsed == JSONparse(trim(o.text[1]))
         IN  IF parsed.kind = "throw" THEN parsed ELSE validate(parsed.value)

\* Variant: rethrows what is not an Error instance.
catchBlock_rethrow(thrown) ==
    IF thrown.isError
    THEN Return([error |-> ApiErrorPrefix \o thrown.message])
    ELSE Throw(thrown)

\* The catch block.
catchBlock(thrown) ==
    IF thrown.isError
    THEN Return([error |-> ApiErrorPrefix \o thrown.message])
    ELSE Return([error |-> GenericMessage])

\* Completion of the async function body once the external call settled.
recognizeCowBreed(o) ==
    LET body == tryBlock(o)
    IN  IF body.kind = "throw" THEN catchBlock(body.value) ELSE body

\* Settled state of the promise an async function returns.
Settle(completion) ==
    [state |-> IF completion.kind = "return" THEN "fulfilled" ELSE "rejected",
     value |-> completion.value]

NoPromise == [state |-> "none", value |-> Null]
Pending   == [state |-> "pending", value |-> Null]

\* Variant: omits the `if (!API_KEY) throw`.
ModuleInit_noCheck ==
    /\ moduleState = "unloaded"
    /\ moduleState' = "ready"
    /\ UNCHANGED <<API_KEY, startupFault, apiCalls, adapterVars, shellVars>>

\* Top-level statements of the module: read API_KEY, throw when falsy.
ModuleInit ==
    /\ moduleState = "unloaded"
    /\ IF API_KEY = Null \/ API_KEY = Some("")
       THEN /\ moduleState' = "failed"
            /\ startupFault' = Some(NewError(StartupMessage))
       ELSE /\ moduleState' = "ready"
            /\ UNCHANGED startupFault
    /\ UNCHANGED <<API_KEY, apiCalls, adapterVars, shellVars>>

\* A caller invokes recognizeCowBreed; the body runs up to the await.
Invoke ==
    /\ moduleState = "ready"
    /\ adapterPc = "idle"
    /\ apiCalls < MaxCalls
    /\ adapterPc' = "awaiting"
    /\ apiCalls' = apiCalls + 1
    /\ extOutcome' = Null
    /\ promise' = Pending
    /\ UNCHANGED <<moduleVars, shellVars>>

\* The awaited generateContent call settles and the body runs to its end.
Resume ==
    /\ adapterPc = "awaiting"
    /\ \E o \in ExternalOutcomes :
         /\ extOutcome' = Some(o)
         /\ promise' = Settle(recognizeCowBreed(o))
    /\ adapterPc' = "settled"
    /\ UNCHANGED <<moduleVars, apiCalls, shellVars>>

\* The caller consumes the settled promise.
Consume ==
    /\ adapterPc = "settled"
    /\ adapterPc' = "idle"
    /\ UNCHANGED <<moduleVars, apiCalls, extOutcome, promise, shellVars>>

ShellInit ==
    /\ imageFile = Null
    /\ imageUrl = Null
    /\ breedInfo = Null
    /\ isLoading = FALSE
    /\ error = Null
    /\ jobs = <<>>
    /\ nextFile = 1
    /\ breedInfoOf = Null
    /\ errorOf = Null

Init ==
    /\ API_KEY \in {Null, Some(""), Some("key")}
    /\ moduleState = "unloaded"
    /\ startupFault = Null
    /\ apiCalls = 0
    /\ adapterPc = "idle"
    /\ extOutcome = Null
    /\ promise = NoPromise
    /\ ShellInit

AdapterNext == ModuleInit \/ Invoke \/ Resume \/ Consume

SpecAdapter == Init /\ [][AdapterNext]_vars

(***************************************************************************)
(* App.tsx                                                                 *)
(* App imports geminiService, so it renders only once that module loaded.  *)
(* A job is the continuation of one handleRecognize call: "reading" while  *)
(* the FileReader works, "calling" while recognizeCowBreed is awaited.     *)
(***************************************************************************)
ReadFailedMessage == "Failed to read the image file."
NoImageMessage    == "Please upload an image first."

\* URL.createObjectURL(file)
createObjectURL(file) == [blob |-> file]

Remove(seq, i) == [j \in 1..(Len(seq) - 1) |-> IF j < i THEN seq[j] ELSE seq[j + 1]]

Reading == {i \in DOMAIN jobs : jobs[i].phase = "reading"}
Calling == {i \in DOMAIN jobs : jobs[i].phase = "calling"}

\* The user picks a file in ImageUploader; each pick is a new File object.
handleImageChange ==
    /\ moduleState = "ready"
    /\ nextFile <= MaxFiles
    /\ imageFile' = Some(nextFile)
    /\ imageUrl' = Some(createObjectURL(nextFile))
    /\ breedInfo' = Null
    /\ error' = Null
    /\ breedInfoOf' = Null
    /\ errorOf' = Null
    /\ nextFile' = nextFile + 1
    /\ UNCHANGED <<moduleVars, apiCalls, adapterVars, isLoading, jobs>>

\* disabled={!imageFile || isLoading}
recognizeEnabled == ~(imageFile = Null \/ isLoading)

\* Click on "Recognize Breed": the synchronous part of handleRecognize.
handleRecognize ==
    /\ moduleState = "ready"
    /\ recognizeEnabled
    /\ apiCalls + Cardinality(Reading) < MaxCalls
    /\ IF imageFile = Null
       THEN /\ error' = Some(NoImageMessage)
            /\ UNCHANGED <<isLoading, breedInfo, jobs>>
       ELSE /\ isLoading' = TRUE
            /\ error' = Null
            /\ breedInfo' = Null
            /\ jobs' = Append(jobs, [file |-> imageFile[1], phase |-> "reading"])
    /\ breedInfoOf' = Null
    /\ errorOf' = Null
    /\ UNCHANGED <<moduleVars, apiCalls, adapterVars, imageFile, imageUrl, nextFile>>

\* reader.onload up to the await: recognizeCowBreed is invoked with the
\* base64 part of the data URL and imageFile.type of the File the callback
\* closed over; neither influences how the call settles.
readerOnload ==
    /\ \E i \in Reading :
         jobs' = [jobs EXCEPT ![i].phase = "calling"]
    /\ apiCalls' = apiCalls + 1
    /\ UNCHANGED <<moduleVars, adapterVars, imageFile, imageUrl, breedInfo,
                   isLoading, error, nextFile, breedInfoOf, errorOf>>

\* reader.onerror
readerOnerror ==
    /\ \E i \in Reading :
         jobs' = Remove(jobs, i)
    /\ error' = Some(ReadFailedMessage)
    /\ isLoading' = FALSE
    /\ errorOf' = Null
    /\ UNCHANGED <<moduleVars, apiCalls, adapterVars, imageFile, imageUrl,
                   breedInfo, nextFile, breedInfoOf>>

\* reader.onload after the await: the promise of recognizeCowBreed settled.
\* A rejected promise would end the callback before any state is set.
readerOnloadResume ==
    /\ \E i \in Calling : \E o \in ExternalOutcomes :
         LET settled == Settle(recognizeCowBreed(o))
             result  == settled.value
         IN  /\ jobs' = Remove(jobs, i)
             /\ IF settled.state = "rejected"
                THEN UNCHANGED <<error, breedInfo, isLoading, errorOf, breedInfoOf>>
                ELSE /\ IF NonEmpty(result, "error")
                        THEN /\ error' = Some(result["error"])
                             /\ errorOf' = Some(jobs[i].file)
                             /\ UNCHANGED <<breedInfo, breedInfoOf>>
                        ELSE /\ breedInfo' = Some(result)
                             /\ breedInfoOf' = Some(jobs[i].file)
                             /\ UNCHANGED <<error, errorOf>>
                     /\ isLoading' = FALSE
    /\ UNCHANGED <<moduleVars, apiCalls, adapterVars, imageFile, imageUrl, nextFile>>

\* Click on "Clear", rendered while imageUrl is set.
handleReset ==
    /\ moduleState = "ready"
    /\ imageUrl # Null
    /\ imageFile' = Null
    /\ imageUrl' = Null
    /\ breedInfo' = Null
    /\ error' = Null
    /\ isLoading' = FALSE
    /\ breedInfoOf' = Null
    /\ errorOf' = Null
    /\ UNCHANGED <<moduleVars, apiCalls, adapterVars, jobs, nextFile>>

Next ==
    \/ ModuleInit
    \/ handleImageChange
    \/ handleRecognize
    \/ readerOnload
    \/ readerOnerror
    \/ readerOnloadResume
    \/ handleReset

Spec == Init /\ [][Next]_vars

(***************************************************************************)
(* Properties of the adapter, checked under SpecAdapter                    *)
(***************************************************************************)
SchemaFields == {"breed", "description", "confidence", "error"}

\* A recognizeCowBreed call has settled; Outcome is how the external call went.
Settled == extOutcome # Null /\ promise.state \in {"fulfilled", "rejected"}
Outcome == extOutcome[1]

HasText(o)     == o.kind = "fulfilled" /\ o.text # Null
DecodeFault(o) == HasText(o) /\ o.text[1].body.syntax # "json"
Decoded(o)     == HasText(o) /\ o.text[1].body.syntax = "json"
DecodedValue(o) == o.text[1].body.value
DecodedObject(o) == Decoded(o) /\ DecodedValue(o).type = "object"
Raw(o) == DecodedValue(o).fields

IsBreedResult(r) == DOMAIN r \subseteq SchemaFields

\* C1: whatever the outcome of the external call (rejection with any thrown
\* value, missing text, text that is not JSON, JSON null, a non-object JSON
\* value), the promise returned by recognizeCowBreed is fulfilled with a
\* BreedResult and never rejected; a decoding fault gives a non-empty error.
C1_NeverRejects ==
    Settled =>
        /\ promise.state = "fulfilled"
        /\ IsBreedResult(promise.value)
        /\ (DecodeFault(Outcome) => NonEmpty(promise.value, "error"))

C1_Witness ==
    /\ Settled
    /\ DecodeFault(Outcome)
    /\ Outcome.text[1].body.syntax = "junk"
    /\ promise.state = "fulfilled"

\* C2: every value recognizeCowBreed returns has a non-empty error or a
\* non-empty breed, and never both.
C2_SuccessXorFailure ==
    (Settled /\ promise.state = "fulfilled") =>
        (NonEmpty(promise.value, "error") # NonEmpty(promise.value, "breed"))

C2_Witness ==
    /\ Settled
    /\ DecodedObject(Outcome)
    /\ NonEmpty(Raw(Outcome), "breed")
    /\ "error" \in DOMAIN Raw(Outcome)
    /\ promise.state = "fulfilled"
    /\ NonEmpty(promise.value, "breed")

\* C3: a decoded response with a non-empty error field is returned as the
\* failure arm holding exactly that text and no other field, whatever other
\* fields the decoded response carries.
C3_ErrorVerbatim ==
    (Settled /\ DecodedObject(Outcome) /\ NonEmpty(Raw(Outcome), "error")) =>
        /\ promise.state = "fulfilled"
        /\ promise.value = [error |-> Raw(Outcome)["error"]]

C3_Witness ==
    /\ Settled
    /\ DecodedObject(Outcome)
    /\ NonEmpty(Raw(Outcome), "error")
    /\ NonEmpty(Raw(Outcome), "breed")
    /\ "confidence" \in DOMAIN Raw(Outcome)
    /\ promise.value = [error |-> "No cow was detected in the provided image."]

\* C4: a decoded response whose breed is absent or empty and whose error is
\* absent or empty is returned as the failure arm with the fixed fallback
\* message, whatever description and confidence contain.  A decoded value
\* that is not an object (number, string, boolean, array) has no fields and
\* is covered; JSON null has no properties to read and is a fault (see C1).
C4_FallbackMessage ==
    (Settled /\ Decoded(Outcome) /\ DecodedValue(Outcome).type # "null"
       /\ ~NonEmpty(Raw(Outcome), "breed") /\ ~NonEmpty(Raw(Outcome), "error")) =>
        /\ promise.state = "fulfilled"
        /\ promise.value =
             [error |-> "Could not determine the breed. The image may not contain a cow."]

C4_Witness ==
    /\ Settled
    /\ DecodedObject(Outcome)
    /\ "breed" \in DOMAIN Raw(Outcome) /\ Raw(Outcome)["breed"] = ""
    /\ "error" \in DOMAIN Raw(Outcome) /\ Raw(Outcome)["error"] = ""
    /\ NonEmpty(Raw(Outcome), "description")
    /\ "confidence" \in DOMAIN Raw(Outcome)
    /\ promise.value = [error |-> FallbackMessage]

\* C5: a decoded response with a non-empty breed and no error is returned
\* unmodified: breed, description and confidence equal the decoded values,
\* confidence outside [0,1] is not clamped, absent fields stay absent.
C5_SuccessUnmodified ==
    (Settled /\ DecodedObject(Outcome)
       /\ NonEmpty(Raw(Outcome), "breed") /\ ~NonEmpty(Raw(Outcome), "error")) =>
        /\ promise.state = "fulfilled"
        /\ promise.value = Raw(Outcome)

C5_Witness ==
    /\ Settled
    /\ DecodedObject(Outcome)
    /\ NonEmpty(Raw(Outcome), "breed")
    /\ "error" \notin DOMAIN Raw(Outcome)
    /\ "description" \notin DOMAIN Raw(Outcome)
    /\ "confidence" \in DOMAIN promise.value
    /\ promise.value["confidence"] = 150
    /\ "description" \notin DOMAIN promise.value

\* The value thrown inside the try block, when the call faulted.
Faulted(o) == tryBlock(o).kind = "throw"
FaultOf(o) == tryBlock(o).value

\* C6: a fault in the try block that carries a descriptive message is
\* returned as "API Error: " followed by the message; a fault without one is
\* returned as the generic fallback message; for every kind of thrown value.
C6_MessageDecidesArm ==
    (Settled /\ Faulted(Outcome)) =>
        /\ promise.state = "fulfilled"
        /\ promise.value =
             [error |-> IF FaultOf(Outcome).message # ""
                        THEN "API Error: " \o FaultOf(Outcome).message
                        ELSE "An unexpected error occurred during breed recognition."]

\* C9: with API_KEY absent the module fails while loading with a thrown
\* Error, recognizeCowBreed is never invoked and no external call is issued.
C9_MissingKeyIsFatal ==
    (API_KEY = Null) =>
        /\ moduleState # "ready"
        /\ (moduleState = "failed" =>
              startupFault = Some(NewError("API_KEY environment variable is not set.")))
        /\ apiCalls = 0
        /\ adapterPc = "idle"
        /\ promise = NoPromise
        /\ jobs = <<>>

C9_Witness ==
    /\ API_KEY = Null
    /\ moduleState = "failed"
    /\ startupFault # Null
    /\ apiCalls = 0

(***************************************************************************)
(* Properties of the shell, checked under Spec                             *)
(***************************************************************************)

\* C7: at most one recognizeCowBreed invocation is outstanding at any time,
\* and isLoading is true whenever one is outstanding.
C7_NoOverlappingInvocations ==
    /\ Cardinality(Calling) <= 1
    /\ (Calling # {} => isLoading)

\* C8: breedInfo and error never hold the BreedResult of a recognition that
\* was issued for a File other than the currently selected one.
C8_StaleResultDiscarded ==
    /\ (breedInfoOf # Null => breedInfoOf = imageFile)
    /\ (errorOf # Null => errorOf = imageFile)

\* C10: the error and breedInfo state fields are never both non-null.
C10_ErrorXorBreedInfo ==
    ~(error # Null /\ breedInfo # Null)

====
